---- MODULE Spec2Model ----
(***************************************************************************)
(* node-disk-manager: the DiskInfo aggregate of                            *)
(* cmd/ndm_daemonset/controller/disk.go and its projection into the        *)
(* exported Disk resource (ToDisk, ToPartition).                           *)
(*                                                                         *)
(* Go values are modelled as follows.                                      *)
(*   struct      a record with the struct's field names                    *)
(*   []T         [isNil, elems]: a nil slice and make([]T, 0) both have    *)
(*               length 0 and differ in isNil                              *)
(*   map[K]V     [isNil, kv]: kv is a set of <<key, value>> pairs with     *)
(*               unique keys; reading a missing key gives V's zero value   *)
(*   uintN/intN/floatN   integers; the code only copies them               *)
(***************************************************************************)
EXTENDS Integers, Sequences, FiniteSets, TLC

(***************************************************************************)
(* Bound of the model.                                                     *)
(***************************************************************************)
\* How many observations are written to a new aggregate.
MaxWrites == 3

(***************************************************************************)
(* Package constants read by disk.go.  They are declared in other files    *)
(* of package controller and of package udev.                              *)
(***************************************************************************)
NDMDiskKind == "Disk"

NDMVersion == "openebs.io/v1alpha1"

KubernetesHostNameLabel == "kubernetes.io/hostname"

NDMDiskTypeKey == "ndm.io/disk-type"

NDMManagedKey == "ndm.io/managed"

TrueString == "true"

NDMDefaultDiskType == "disk"

NDMActive == "Active"

HostNameKey == "hostname"

UDEV_FS_NONE == "None"

(***************************************************************************)
(* Go slices and maps.                                                     *)
(***************************************************************************)
NilSlice == [isNil |-> TRUE, elems |-> <<>>]

MakeSlice == [isNil |-> FALSE, elems |-> <<>>]

SliceOf(s) == [isNil |-> FALSE, elems |-> s]

SliceLen(s) == Len(s.elems)

SliceAppend(s, x) == [isNil |-> FALSE, elems |-> Append(s.elems, x)]

NilMap == [isNil |-> TRUE, kv |-> {}]

MakeMap == [isNil |-> FALSE, kv |-> {}]

MapKeys(m) == {p[1] : p \in m.kv}

MapGet(m, k) ==
    IF k \in MapKeys(m) THEN (CHOOSE p \in m.kv : p[1] = k)[2] ELSE ""

MapSet(m, k, v) ==
    [isNil |-> FALSE, kv |-> {p \in m.kv : p[1] # k} \cup {<<k, v>>}]

(***************************************************************************)
(* The structs of disk.go and their zero values.                           *)
(***************************************************************************)
ZeroProbeIdentifier ==
    [Uuid |-> "", UdevIdentifier |-> "", SmartIdentifier |-> "",
     SeachestIdentifier |-> "", MountIdentifier |-> ""]

ZeroFSInfo == [FileSystem |-> "", MountPoint |-> ""]

ZeroTemperatureInfo ==
    [TemperatureDataValid |-> FALSE, CurrentTemperature |-> 0,
     HighestValid |-> FALSE, HighestTemperature |-> 0,
     LowestValid |-> FALSE, LowestTemperature |-> 0]

ZeroDiskInfo ==
    [ProbeIdentifiers |-> ZeroProbeIdentifier,
     NodeAttributes |-> NilMap,
     Uuid |-> "",
     Capacity |-> 0,
     Model |-> "",
     Serial |-> "",
     Vendor |-> "",
     Path |-> "",
     ByIdDevLinks |-> NilSlice,
     ByPathDevLinks |-> NilSlice,
     FirmwareRevision |-> "",
     LogicalSectorSize |-> 0,
     PhysicalSectorSize |-> 0,
     RotationRate |-> 0,
     Compliance |-> "",
     DiskType |-> "",
     DriveType |-> "",
     FileSystemInformation |-> ZeroFSInfo,
     PartitionData |-> NilSlice,
     TotalBytesRead |-> 0,
     TotalBytesWritten |-> 0,
     DeviceUtilizationRate |-> 0,
     PercentEnduranceUsed |-> 0,
     TemperatureInfo |-> ZeroTemperatureInfo]

\* NewDiskInfo without the default disk type.
NewDiskInfo_NoDefaultType ==
    [ZeroDiskInfo EXCEPT !.NodeAttributes = MakeMap]

\* NewDiskInfo(): a non-nil empty NodeAttributes map and the default disk type.
NewDiskInfo ==
    LET nodeAttribute == MakeMap
        diskInfo == [ZeroDiskInfo EXCEPT !.NodeAttributes = nodeAttribute]
    IN  [diskInfo EXCEPT !.DiskType = NDMDefaultDiskType]

(***************************************************************************)
(* The exported resource (apis.Disk) and its zero value.                   *)
(***************************************************************************)
ZeroFileSystemInfo == [Type |-> "", Mountpoint |-> ""]

ZeroDiskCapacity ==
    [Storage |-> 0, LogicalSectorSize |-> 0, PhysicalSectorSize |-> 0]

ZeroDiskDetails ==
    [Model |-> "", Serial |-> "", Vendor |-> "", FirmwareRevision |-> "",
     Compliance |-> "", DriveType |-> "", RotationRate |-> 0]

ZeroTempInfo ==
    [CurrentTemperature |-> 0, HighestTemperature |-> 0,
     LowestTemperature |-> 0]

ZeroDiskStat ==
    [TotalBytesRead |-> 0, TotalBytesWritten |-> 0,
     DeviceUtilizationRate |-> 0, PercentEnduranceUsed |-> 0,
     TempInfo |-> ZeroTempInfo]

ZeroDiskSpec ==
    [Path |-> "", Capacity |-> ZeroDiskCapacity, Details |-> ZeroDiskDetails,
     DevLinks |-> NilSlice, FileSystem |-> ZeroFileSystemInfo]

ZeroDisk ==
    [TypeMeta |-> [Kind |-> "", APIVersion |-> ""],
     ObjectMeta |-> [Labels |-> NilMap, Name |-> ""],
     Spec |-> ZeroDiskSpec,
     Status |-> [State |-> ""],
     Stats |-> ZeroDiskStat]

(***************************************************************************)
(* The projection, one operator per function of disk.go.                   *)
(***************************************************************************)
\* getFileSystemInfo without the test for UDEV_FS_NONE.
getFileSystemInfo_NoSentinel(fs) ==
    [Type |-> fs.FileSystem, Mountpoint |-> fs.MountPoint]

\* getFileSystemInfo with the mount point assigned outside the test.
getFileSystemInfo_KeepMount(fs) ==
    IF fs.FileSystem # UDEV_FS_NONE
    THEN [Type |-> fs.FileSystem, Mountpoint |-> fs.MountPoint]
    ELSE [Type |-> "", Mountpoint |-> fs.MountPoint]

\* FSInfo.getFileSystemInfo
getFileSystemInfo(fs) ==
    LET fsInfo == ZeroFileSystemInfo
    IN  IF fs.FileSystem # UDEV_FS_NONE
        THEN [fsInfo EXCEPT !.Type = fs.FileSystem,
                            !.Mountpoint = fs.MountPoint]
        ELSE fsInfo

\* getObjectMeta naming the object after ProbeIdentifiers.Uuid.
getObjectMeta_NameFromProbe(di) ==
    [Labels |->
         MapSet(MapSet(MapSet(MakeMap, KubernetesHostNameLabel,
                              MapGet(di.NodeAttributes, HostNameKey)),
                       NDMDiskTypeKey, di.DiskType),
                NDMManagedKey, TrueString),
     Name |-> di.ProbeIdentifiers.Uuid]

\* DiskInfo.getObjectMeta
getObjectMeta(di) ==
    LET objectMeta == [Labels |-> MakeMap, Name |-> di.Uuid]
        l1 == MapSet(objectMeta.Labels, KubernetesHostNameLabel,
                     MapGet(di.NodeAttributes, HostNameKey))
        l2 == MapSet(l1, NDMDiskTypeKey, di.DiskType)
        l3 == MapSet(l2, NDMManagedKey, TrueString)
    IN  [objectMeta EXCEPT !.Labels = l3]

\* DiskInfo.getTypeMeta
getTypeMeta(di) == [Kind |-> NDMDiskKind, APIVersion |-> NDMVersion]

\* DiskInfo.getStatus
getStatus(di) == [State |-> NDMActive]

\* DiskInfo.getPath
getPath(di) == di.Path

\* getDiskDetails without the assignment of RotationRate.
getDiskDetails_DropRotation(di) ==
    [ZeroDiskDetails EXCEPT
        !.Model = di.Model,
        !.Serial = di.Serial,
        !.Vendor = di.Vendor,
        !.FirmwareRevision = di.FirmwareRevision,
        !.Compliance = di.Compliance,
        !.DriveType = di.DriveType]

\* DiskInfo.getDiskDetails
getDiskDetails(di) ==
    [ZeroDiskDetails EXCEPT
        !.Model = di.Model,
        !.Serial = di.Serial,
        !.Vendor = di.Vendor,
        !.FirmwareRevision = di.FirmwareRevision,
        !.Compliance = di.Compliance,
        !.DriveType = di.DriveType,
        !.RotationRate = di.RotationRate]

\* getDiskCapacity with the two sector sizes exchanged.
getDiskCapacity_Swapped(di) ==
    [ZeroDiskCapacity EXCEPT
        !.Storage = di.Capacity,
        !.LogicalSectorSize = di.PhysicalSectorSize,
        !.PhysicalSectorSize = di.LogicalSectorSize]

\* DiskInfo.getDiskCapacity
getDiskCapacity(di) ==
    [ZeroDiskCapacity EXCEPT
        !.Storage = di.Capacity,
        !.LogicalSectorSize = di.LogicalSectorSize,
        !.PhysicalSectorSize = di.PhysicalSectorSize]

\* getDiskLinks without the test of the by-id list's length.
getDiskLinks_Unconditional(di) ==
    LET devLinks1 ==
            SliceAppend(MakeSlice,
                [Kind |-> "by-id", Links |-> di.ByIdDevLinks])
    IN  IF SliceLen(di.ByPathDevLinks) # 0
        THEN SliceAppend(devLinks1,
                 [Kind |-> "by-path", Links |-> di.ByPathDevLinks])
        ELSE devLinks1

\* DiskInfo.getDiskLinks
getDiskLinks(di) ==
    LET devLinks0 == MakeSlice
        devLinks1 ==
            IF SliceLen(di.ByIdDevLinks) # 0
            THEN SliceAppend(devLinks0,
                     [Kind |-> "by-id", Links |-> di.ByIdDevLinks])
            ELSE devLinks0
    IN  IF SliceLen(di.ByPathDevLinks) # 0
        THEN SliceAppend(devLinks1,
                 [Kind |-> "by-path", Links |-> di.ByPathDevLinks])
        ELSE devLinks1

\* getDiskSpec without the filesystem.
getDiskSpec_NoFileSystem(di) ==
    [ZeroDiskSpec EXCEPT
        !.Path = getPath(di),
        !.Capacity = getDiskCapacity(di),
        !.Details = getDiskDetails(di),
        !.DevLinks = getDiskLinks(di)]

\* DiskInfo.getDiskSpec
getDiskSpec(di) ==
    [ZeroDiskSpec EXCEPT
        !.Path = getPath(di),
        !.Capacity = getDiskCapacity(di),
        !.Details = getDiskDetails(di),
        !.DevLinks = getDiskLinks(di),
        !.FileSystem = getFileSystemInfo(di.FileSystemInformation)]

\* getStats without the test of TemperatureDataValid.
getStats_Ungated(di) ==
    [TotalBytesRead |-> di.TotalBytesRead,
     TotalBytesWritten |-> di.TotalBytesWritten,
     DeviceUtilizationRate |-> di.DeviceUtilizationRate,
     PercentEnduranceUsed |-> di.PercentEnduranceUsed,
     TempInfo |->
         [CurrentTemperature |-> di.TemperatureInfo.CurrentTemperature,
          HighestTemperature |-> di.TemperatureInfo.HighestTemperature,
          LowestTemperature |-> di.TemperatureInfo.LowestTemperature]]

\* DiskInfo.getStats
getStats(di) ==
    LET diskStat ==
            [ZeroDiskStat EXCEPT
                !.TotalBytesRead = di.TotalBytesRead,
                !.TotalBytesWritten = di.TotalBytesWritten,
                !.DeviceUtilizationRate = di.DeviceUtilizationRate,
                !.PercentEnduranceUsed = di.PercentEnduranceUsed]
    IN  IF di.TemperatureInfo.TemperatureDataValid = TRUE
        THEN [diskStat EXCEPT
                !.TempInfo.CurrentTemperature =
                    di.TemperatureInfo.CurrentTemperature,
                !.TempInfo.HighestTemperature =
                    di.TemperatureInfo.HighestTemperature,
                !.TempInfo.LowestTemperature =
                    di.TemperatureInfo.LowestTemperature]
        ELSE diskStat

\* DiskInfo.ToDisk
ToDisk(di) ==
    [ZeroDisk EXCEPT
        !.TypeMeta = getTypeMeta(di),
        !.ObjectMeta = getObjectMeta(di),
        !.Spec = getDiskSpec(di),
        !.Status = getStatus(di),
        !.Stats = getStats(di)]

\* The loop of ToPartition putting each new entry in front.
RECURSIVE ToPartitionLoop_Prepend(_, _)
ToPartitionLoop_Prepend(elems, n) ==
    IF n = 0
    THEN MakeSlice
    ELSE SliceOf(<<[PartitionType |-> elems[n].PartitionType,
                    FileSystem |->
                        getFileSystemInfo(elems[n].FileSystemInformation)]>>
                 \o ToPartitionLoop_Prepend(elems, n - 1).elems)

\* The loop of DiskInfo.ToPartition over the first n partition records.
RECURSIVE ToPartitionLoop(_, _)
ToPartitionLoop(elems, n) ==
    IF n = 0
    THEN MakeSlice
    ELSE SliceAppend(ToPartitionLoop(elems, n - 1),
             [PartitionType |-> elems[n].PartitionType,
              FileSystem |->
                  getFileSystemInfo(elems[n].FileSystemInformation)])

\* DiskInfo.ToPartition
ToPartition(di) ==
    ToPartitionLoop(di.PartitionData.elems, SliceLen(di.PartitionData))

(***************************************************************************)
(* Observations.  The observation sources (probes) fill the DiskInfo they  *)
(* are handed; their code is outside disk.go.  An observation writes its   *)
(* fields one after the other by plain assignment; devlinks are appended   *)
(* unless already present; the partition collection is replaced.           *)
(***************************************************************************)
IdentifierSamples ==
    {[Uuid |-> "disk-1", UdevIdentifier |-> "/sys/block/sdb",
      SmartIdentifier |-> "/dev/sdb", SeachestIdentifier |-> "/dev/sdb",
      MountIdentifier |-> "/dev/sdb"],
     [Uuid |-> "disk-2", UdevIdentifier |-> "/sys/block/sdc",
      SmartIdentifier |-> "", SeachestIdentifier |-> "",
      MountIdentifier |-> ""]}

NodeAttributeSamples ==
    {<<HostNameKey, "node-1">>, <<"zone", "z1">>}

DiskTypeSamples == {"disk", "sparse"}

PathSamples == {"", "/dev/sdb"}

CapacitySamples ==
    {[Capacity |-> 0, LogicalSectorSize |-> 0, PhysicalSectorSize |-> 0],
     [Capacity |-> 1000000000, LogicalSectorSize |-> 512,
      PhysicalSectorSize |-> 4096]}

DetailsSamples ==
    {[Model |-> "", Serial |-> "", Vendor |-> "", FirmwareRevision |-> "",
      Compliance |-> "", DriveType |-> "", RotationRate |-> 0],
     [Model |-> "X", Serial |-> "S1", Vendor |-> "V1",
      FirmwareRevision |-> "fw1", Compliance |-> "SPC-4",
      DriveType |-> "SSD", RotationRate |-> 1]}

ByIdLinkSamples == {"a", "b"}

ByPathLinkSamples == {"p"}

FSSamples ==
    [FileSystem : {UDEV_FS_NONE, "", "ext4"}, MountPoint : {"", "/mnt"}]

PartitionP1 ==
    [PartitionType |-> "83",
     FileSystemInformation |-> [FileSystem |-> "ext4", MountPoint |-> "/mnt"]]

PartitionP2 ==
    [PartitionType |-> "8e",
     FileSystemInformation |->
         [FileSystem |-> UDEV_FS_NONE, MountPoint |-> "/x"]]

PartitionP3 ==
    [PartitionType |-> "82",
     FileSystemInformation |-> [FileSystem |-> "", MountPoint |-> ""]]

PartitionLists ==
    {<<>>, <<PartitionP1>>, <<PartitionP2, PartitionP1>>,
     <<PartitionP1, PartitionP2, PartitionP3>>}

StatsSamples ==
    {[TotalBytesRead |-> 0, TotalBytesWritten |-> 0,
      DeviceUtilizationRate |-> 0, PercentEnduranceUsed |-> 0],
     [TotalBytesRead |-> 10, TotalBytesWritten |-> 20,
      DeviceUtilizationRate |-> 30, PercentEnduranceUsed |-> 40]}

TemperatureSamples ==
    {[TemperatureDataValid |-> v, CurrentTemperature |-> 42,
      HighestValid |-> TRUE, HighestTemperature |-> 50,
      LowestValid |-> FALSE, LowestTemperature |-> 20] : v \in BOOLEAN}
    \cup {ZeroTemperatureInfo}

\* Append x to the devlink list s unless it is already in it.
AppendDedup(s, x) ==
    IF \E i \in 1..SliceLen(s) : s.elems[i] = x THEN s ELSE SliceAppend(s, x)

\* How many field writes an observation of this kind makes.
NumWrites(kind) ==
    CASE kind = "identifiers" -> 5
      [] kind = "capacity" -> 3
      [] kind = "details" -> 7
      [] kind = "filesystem" -> 2
      [] kind = "stats" -> 4
      [] kind = "temperature" -> 6
      [] OTHER -> 1

\* The i-th field write of an observation obs of the given kind.
FieldWrite(di, kind, obs, i) ==
    CASE kind = "identifiers" ->
           (CASE i = 1 -> [di EXCEPT !.ProbeIdentifiers.Uuid = obs.Uuid]
              [] i = 2 -> [di EXCEPT !.ProbeIdentifiers.UdevIdentifier =
                                         obs.UdevIdentifier]
              [] i = 3 -> [di EXCEPT !.ProbeIdentifiers.SmartIdentifier =
                                         obs.SmartIdentifier]
              [] i = 4 -> [di EXCEPT !.ProbeIdentifiers.SeachestIdentifier =
                                         obs.SeachestIdentifier]
              [] i = 5 -> [di EXCEPT !.ProbeIdentifiers.MountIdentifier =
                                         obs.MountIdentifier])
      [] kind = "uuid" -> [di EXCEPT !.Uuid = di.ProbeIdentifiers.Uuid]
      [] kind = "nodeattr" ->
           [di EXCEPT !.NodeAttributes =
                          MapSet(di.NodeAttributes, obs[1], obs[2])]
      [] kind = "disktype" -> [di EXCEPT !.DiskType = obs]
      [] kind = "path" -> [di EXCEPT !.Path = obs]
      [] kind = "capacity" ->
           (CASE i = 1 -> [di EXCEPT !.Capacity = obs.Capacity]
              [] i = 2 -> [di EXCEPT !.LogicalSectorSize =
                                         obs.LogicalSectorSize]
              [] i = 3 -> [di EXCEPT !.PhysicalSectorSize =
                                         obs.PhysicalSectorSize])
      [] kind = "details" ->
           (CASE i = 1 -> [di EXCEPT !.Model = obs.Model]
              [] i = 2 -> [di EXCEPT !.Serial = obs.Serial]
              [] i = 3 -> [di EXCEPT !.Vendor = obs.Vendor]
              [] i = 4 -> [di EXCEPT !.FirmwareRevision =
                                         obs.FirmwareRevision]
              [] i = 5 -> [di EXCEPT !.Compliance = obs.Compliance]
              [] i = 6 -> [di EXCEPT !.DriveType = obs.DriveType]
              [] i = 7 -> [di EXCEPT !.RotationRate = obs.RotationRate])
      [] kind = "byid" ->
           [di EXCEPT !.ByIdDevLinks = AppendDedup(di.ByIdDevLinks, obs)]
      [] kind = "bypath" ->
           [di EXCEPT !.ByPathDevLinks = AppendDedup(di.ByPathDevLinks, obs)]
      [] kind = "filesystem" ->
           (CASE i = 1 -> [di EXCEPT !.FileSystemInformation.FileSystem =
                                         obs.FileSystem]
              [] i = 2 -> [di EXCEPT !.FileSystemInformation.MountPoint =
                                         obs.MountPoint])
      [] kind = "partitions" -> [di EXCEPT !.PartitionData = SliceOf(obs)]
      [] kind = "stats" ->
           (CASE i = 1 -> [di EXCEPT !.TotalBytesRead = obs.TotalBytesRead]
              [] i = 2 -> [di EXCEPT !.TotalBytesWritten =
                                         obs.TotalBytesWritten]
              [] i = 3 -> [di EXCEPT !.DeviceUtilizationRate =
                                         obs.DeviceUtilizationRate]
              [] i = 4 -> [di EXCEPT !.PercentEnduranceUsed =
                                         obs.PercentEnduranceUsed])
      [] kind = "temperature" ->
           (CASE i = 1 -> [di EXCEPT !.TemperatureInfo.TemperatureDataValid =
                                         obs.TemperatureDataValid]
              [] i = 2 -> [di EXCEPT !.TemperatureInfo.CurrentTemperature =
                                         obs.CurrentTemperature]
              [] i = 3 -> [di EXCEPT !.TemperatureInfo.HighestValid =
                                         obs.HighestValid]
              [] i = 4 -> [di EXCEPT !.TemperatureInfo.HighestTemperature =
                                         obs.HighestTemperature]
              [] i = 5 -> [di EXCEPT !.TemperatureInfo.LowestValid =
                                         obs.LowestValid]
              [] i = 6 -> [di EXCEPT !.TemperatureInfo.LowestTemperature =
                                         obs.LowestTemperature])

\* The aggregate after the first n field writes of an observation.
RECURSIVE WriteUpTo(_, _, _, _)
WriteUpTo(di, kind, obs, n) ==
    IF n = 0
    THEN di
    ELSE FieldWrite(WriteUpTo(di, kind, obs, n - 1), kind, obs, n)

\* The aggregate after a complete observation.
Observe(di, kind, obs) == WriteUpTo(di, kind, obs, NumWrites(kind))

(***************************************************************************)
(* State.                                                                  *)
(*   disks       the aggregates, one DiskInfo per instance                 *)
(*   toDiskCall  per instance, the ToDisk call completed since the last    *)
(*               write to it, if any: the receiver as the call started and *)
(*               the Disk it returned                                      *)
(*   partCall    the same for ToPartition                                  *)
(*   op          the last operation: its name, instance and input, and the *)
(*               instance's aggregate before it                            *)
(*   nwrites     how many observations have been written                   *)
(*   proj        per instance, a ToDisk call in progress: the position in  *)
(*               the code, the Disk built so far, the receiver as the call *)
(*               started, and whether a mutation of the same instance was  *)
(*               in flight at any time during the call                     *)
(*   mut         the mutation in flight: target, kind, observation, how    *)
(*               many of its fields are written, the target before it      *)
(***************************************************************************)
VARIABLES disks, toDiskCall, partCall, op, nwrites, proj, mut

vars == <<disks, toDiskCall, partCall, op, nwrites, proj, mut>>

NoDiskCall == [called |-> FALSE, arg |-> ZeroDiskInfo, ret |-> ZeroDisk]

NoPartCall == [called |-> FALSE, arg |-> ZeroDiskInfo, ret |-> NilSlice]

IdleProj ==
    [pc |-> "idle", dr |-> ZeroDisk, arg |-> ZeroDiskInfo,
     overlap |-> FALSE]

IdleMut ==
    [state |-> "idle", target |-> "", kind |-> "", obs |-> "", step |-> 0,
     before |-> ZeroDiskInfo]

FirstOp ==
    [name |-> "NewDiskInfo", inst |-> "d1", obs |-> "",
     pre |-> ZeroDiskInfo]

(***************************************************************************)
(* Sequential use: one aggregate, every operation runs to completion       *)
(* before the next one starts.                                             *)
(***************************************************************************)
Init ==
    /\ disks = [d \in {"d1"} |-> NewDiskInfo]
    /\ toDiskCall = [d \in {"d1"} |-> NoDiskCall]
    /\ partCall = [d \in {"d1"} |-> NoPartCall]
    /\ op = FirstOp
    /\ nwrites = 0
    /\ proj = [d \in {"d1"} |-> IdleProj]
    /\ mut = IdleMut

\* A new DiskInfo replaces the instance's aggregate.
NewDiskInfoAct ==
    \E d \in DOMAIN disks :
        /\ disks' = [disks EXCEPT ![d] = NewDiskInfo]
        /\ op' = [name |-> "NewDiskInfo", inst |-> d, obs |-> "",
                  pre |-> disks[d]]
        /\ nwrites' = 0
        /\ toDiskCall' = [toDiskCall EXCEPT ![d] = NoDiskCall]
        /\ partCall' = [partCall EXCEPT ![d] = NoPartCall]
        /\ UNCHANGED <<proj, mut>>

\* One complete observation of the given kind written to instance d.
Written(d, name, kind, obs) ==
    /\ nwrites < MaxWrites
    /\ disks' = [disks EXCEPT ![d] = Observe(disks[d], kind, obs)]
    /\ op' = [name |-> name, inst |-> d, obs |-> obs, pre |-> disks[d]]
    /\ nwrites' = nwrites + 1
    /\ toDiskCall' = [toDiskCall EXCEPT ![d] = NoDiskCall]
    /\ partCall' = [partCall EXCEPT ![d] = NoPartCall]
    /\ UNCHANGED <<proj, mut>>

AssignIdentifiers ==
    \E d \in DOMAIN disks, obs \in IdentifierSamples :
        Written(d, "AssignIdentifiers", "identifiers", obs)

CopyUuid ==
    \E d \in DOMAIN disks : Written(d, "CopyUuid", "uuid", "")

SetNodeAttribute ==
    \E d \in DOMAIN disks, obs \in NodeAttributeSamples :
        Written(d, "SetNodeAttribute", "nodeattr", obs)

SetDiskType ==
    \E d \in DOMAIN disks, obs \in DiskTypeSamples :
        Written(d, "SetDiskType", "disktype", obs)

SetPath ==
    \E d \in DOMAIN disks, obs \in PathSamples :
        Written(d, "SetPath", "path", obs)

SetCapacity ==
    \E d \in DOMAIN disks, obs \in CapacitySamples :
        Written(d, "SetCapacity", "capacity", obs)

SetDetails ==
    \E d \in DOMAIN disks, obs \in DetailsSamples :
        Written(d, "SetDetails", "details", obs)

AddByIdDevLink ==
    \E d \in DOMAIN disks, obs \in ByIdLinkSamples :
        Written(d, "AddByIdDevLink", "byid", obs)

AddByPathDevLink ==
    \E d \in DOMAIN disks, obs \in ByPathLinkSamples :
        Written(d, "AddByPathDevLink", "bypath", obs)

SetFileSystem ==
    \E d \in DOMAIN disks, obs \in FSSamples :
        Written(d, "SetFileSystem", "filesystem", obs)

SetPartitionData ==
    \E d \in DOMAIN disks, obs \in PartitionLists :
        Written(d, "SetPartitionData", "partitions", obs)

SetStats ==
    \E d \in DOMAIN disks, obs \in StatsSamples :
        Written(d, "SetStats", "stats", obs)

SetTemperature ==
    \E d \in DOMAIN disks, obs \in TemperatureSamples :
        Written(d, "SetTemperature", "temperature", obs)

\* A complete call of ToDisk on instance d.
ToDiskAct ==
    \E d \in DOMAIN disks :
        /\ toDiskCall' = [toDiskCall EXCEPT ![d] =
                             [called |-> TRUE, arg |-> disks[d],
                              ret |-> ToDisk(disks[d])]]
        /\ op' = [name |-> "ToDisk", inst |-> d, obs |-> "",
                  pre |-> disks[d]]
        /\ UNCHANGED <<disks, partCall, nwrites, proj, mut>>

\* A complete call of ToPartition on instance d.
ToPartitionAct ==
    \E d \in DOMAIN disks :
        /\ partCall' = [partCall EXCEPT ![d] =
                           [called |-> TRUE, arg |-> disks[d],
                            ret |-> ToPartition(disks[d])]]
        /\ op' = [name |-> "ToPartition", inst |-> d, obs |-> "",
                  pre |-> disks[d]]
        /\ UNCHANGED <<disks, toDiskCall, nwrites, proj, mut>>

Next ==
    \/ NewDiskInfoAct
    \/ AssignIdentifiers
    \/ CopyUuid
    \/ SetNodeAttribute
    \/ SetDiskType
    \/ SetPath
    \/ SetCapacity
    \/ SetDetails
    \/ AddByIdDevLink
    \/ AddByPathDevLink
    \/ SetFileSystem
    \/ SetPartitionData
    \/ SetStats
    \/ SetTemperature
    \/ ToDiskAct
    \/ ToPartitionAct

Spec == Init /\ [][Next]_vars

(***************************************************************************)
(* The projection as a function of its input: two aggregates whose         *)
(* filesystem facts are drawn from FSSamples, each projected by ToDisk     *)
(* and ToPartition.                                                        *)
(***************************************************************************)
PairInput(fs) ==
    Observe(Observe(NewDiskInfo, "filesystem", fs), "partitions",
            <<[PartitionType |-> "83", FileSystemInformation |-> fs]>>)

InitPair ==
    /\ disks \in [{"d1", "d2"} -> {PairInput(fs) : fs \in FSSamples}]
    /\ toDiskCall = [d \in {"d1", "d2"} |-> NoDiskCall]
    /\ partCall = [d \in {"d1", "d2"} |-> NoPartCall]
    /\ op = FirstOp
    /\ nwrites = 0
    /\ proj = [d \in {"d1", "d2"} |-> IdleProj]
    /\ mut = IdleMut

NextPair ==
    \/ ToDiskAct
    \/ ToPartitionAct

SpecPair == InitPair /\ [][NextPair]_vars

(***************************************************************************)
(* Concurrent use: two aggregates, one filled by earlier observations and  *)
(* one new; one ToDisk call per aggregate running read by read in a        *)
(* goroutine of its own, and one observation of either aggregate written   *)
(* field by field by another goroutine.  Nothing in disk.go locks, so the  *)
(* steps interleave freely.                                                *)
(***************************************************************************)
\* One step of ToDisk and of the functions it calls: the position after it
\* and the Disk built so far.  A step is one statement that reads the
\* aggregate; the statements before it that read nothing of the aggregate
\* are part of the step.  The structs the callees build in locals are
\* written straight into dr; they start from the same zero values.
ProjStatement(pc, dr, di) ==
    CASE pc = "om_make" ->
           [pc |-> "om_host",
            dr |-> [dr EXCEPT !.ObjectMeta =
                        [Labels |-> MakeMap, Name |-> di.Uuid]]]
      [] pc = "om_host" ->
           [pc |-> "om_type",
            dr |-> [dr EXCEPT !.ObjectMeta.Labels =
                        MapSet(@, KubernetesHostNameLabel,
                               MapGet(di.NodeAttributes, HostNameKey))]]
      [] pc = "om_type" ->
           [pc |-> "path",
            dr |-> [dr EXCEPT !.ObjectMeta.Labels =
                        MapSet(MapSet(@, NDMDiskTypeKey, di.DiskType),
                               NDMManagedKey, TrueString)]]
      [] pc = "path" ->
           [pc |-> "cap_storage", dr |-> [dr EXCEPT !.Spec.Path = di.Path]]
      [] pc = "cap_storage" ->
           [pc |-> "cap_logical",
            dr |-> [dr EXCEPT !.Spec.Capacity.Storage = di.Capacity]]
      [] pc = "cap_logical" ->
           [pc |-> "cap_physical",
            dr |-> [dr EXCEPT !.Spec.Capacity.LogicalSectorSize =
                        di.LogicalSectorSize]]
      [] pc = "cap_physical" ->
           [pc |-> "det_model",
            dr |-> [dr EXCEPT !.Spec.Capacity.PhysicalSectorSize =
                        di.PhysicalSectorSize]]
      [] pc = "det_model" ->
           [pc |-> "det_serial",
            dr |-> [dr EXCEPT !.Spec.Details.Model = di.Model]]
      [] pc = "det_serial" ->
           [pc |-> "det_vendor",
            dr |-> [dr EXCEPT !.Spec.Details.Serial = di.Serial]]
      [] pc = "det_vendor" ->
           [pc |-> "det_firmware",
            dr |-> [dr EXCEPT !.Spec.Details.Vendor = di.Vendor]]
      [] pc = "det_firmware" ->
           [pc |-> "det_compliance",
            dr |-> [dr EXCEPT !.Spec.Details.FirmwareRevision =
                        di.FirmwareRevision]]
      [] pc = "det_compliance" ->
           [pc |-> "det_driveType",
            dr |-> [dr EXCEPT !.Spec.Details.Compliance = di.Compliance]]
      [] pc = "det_driveType" ->
           [pc |-> "det_rotation",
            dr |-> [dr EXCEPT !.Spec.Details.DriveType = di.DriveType]]
      [] pc = "det_rotation" ->
           [pc |-> "links_idLen",
            dr |-> [dr EXCEPT !.Spec.Details.RotationRate =
                        di.RotationRate]]
      [] pc = "links_idLen" ->
           [pc |-> IF SliceLen(di.ByIdDevLinks) # 0
                   THEN "links_id" ELSE "links_pathLen",
            dr |-> [dr EXCEPT !.Spec.DevLinks = MakeSlice]]
      [] pc = "links_id" ->
           [pc |-> "links_pathLen",
            dr |-> [dr EXCEPT !.Spec.DevLinks =
                        SliceAppend(@, [Kind |-> "by-id",
                                        Links |-> di.ByIdDevLinks])]]
      [] pc = "links_pathLen" ->
           [pc |-> IF SliceLen(di.ByPathDevLinks) # 0
                   THEN "links_path" ELSE "fs_test",
            dr |-> dr]
      [] pc = "links_path" ->
           [pc |-> "fs_test",
            dr |-> [dr EXCEPT !.Spec.DevLinks =
                        SliceAppend(@, [Kind |-> "by-path",
                                        Links |-> di.ByPathDevLinks])]]
      [] pc = "fs_test" ->
           [pc |-> IF di.FileSystemInformation.FileSystem # UDEV_FS_NONE
                   THEN "fs_type" ELSE "stat_read",
            dr |-> dr]
      [] pc = "fs_type" ->
           [pc |-> "fs_mount",
            dr |-> [dr EXCEPT !.Spec.FileSystem.Type =
                        di.FileSystemInformation.FileSystem]]
      [] pc = "fs_mount" ->
           [pc |-> "stat_read",
            dr |-> [dr EXCEPT !.Spec.FileSystem.Mountpoint =
                        di.FileSystemInformation.MountPoint]]
      [] pc = "stat_read" ->
           [pc |-> "stat_written",
            dr |-> [dr EXCEPT !.Status = [State |-> NDMActive],
                              !.Stats.TotalBytesRead = di.TotalBytesRead]]
      [] pc = "stat_written" ->
           [pc |-> "stat_util",
            dr |-> [dr EXCEPT !.Stats.TotalBytesWritten =
                        di.TotalBytesWritten]]
      [] pc = "stat_util" ->
           [pc |-> "stat_endurance",
            dr |-> [dr EXCEPT !.Stats.DeviceUtilizationRate =
                        di.DeviceUtilizationRate]]
      [] pc = "stat_endurance" ->
           [pc |-> "temp_test",
            dr |-> [dr EXCEPT !.Stats.PercentEnduranceUsed =
                        di.PercentEnduranceUsed]]
      [] pc = "temp_test" ->
           [pc |-> IF di.TemperatureInfo.TemperatureDataValid = TRUE
                   THEN "temp_current" ELSE "done",
            dr |-> dr]
      [] pc = "temp_current" ->
           [pc |-> "temp_highest",
            dr |-> [dr EXCEPT !.Stats.TempInfo.CurrentTemperature =
                        di.TemperatureInfo.CurrentTemperature]]
      [] pc = "temp_highest" ->
           [pc |-> "temp_lowest",
            dr |-> [dr EXCEPT !.Stats.TempInfo.HighestTemperature =
                        di.TemperatureInfo.HighestTemperature]]
      [] pc = "temp_lowest" ->
           [pc |-> "done",
            dr |-> [dr EXCEPT !.Stats.TempInfo.LowestTemperature =
                        di.TemperatureInfo.LowestTemperature]]

\* The aggregate the ToDisk call on instance d reads: its receiver.
Receiver(d) == disks[d]

\* An aggregate several observations have filled.
PopulatedDiskInfo ==
    LET a == Observe(NewDiskInfo, "identifiers",
                 [Uuid |-> "disk-1", UdevIdentifier |-> "/sys/block/sdb",
                  SmartIdentifier |-> "/dev/sdb",
                  SeachestIdentifier |-> "/dev/sdb",
                  MountIdentifier |-> "/dev/sdb"])
        b == Observe(a, "uuid", "")
        c == Observe(b, "capacity",
                 [Capacity |-> 500, LogicalSectorSize |-> 4096,
                  PhysicalSectorSize |-> 512])
        e == Observe(c, "filesystem",
                 [FileSystem |-> "xfs", MountPoint |-> "/data"])
        f == Observe(e, "byid", "a")
    IN  Observe(f, "temperature",
            [TemperatureDataValid |-> TRUE, CurrentTemperature |-> 30,
             HighestValid |-> TRUE, HighestTemperature |-> 60,
             LowestValid |-> TRUE, LowestTemperature |-> 10])

InitConc ==
    /\ disks = [d \in {"d1", "d2"} |->
                   IF d = "d1" THEN PopulatedDiskInfo ELSE NewDiskInfo]
    /\ toDiskCall = [d \in {"d1", "d2"} |-> NoDiskCall]
    /\ partCall = [d \in {"d1", "d2"} |-> NoPartCall]
    /\ op = FirstOp
    /\ nwrites = 0
    /\ proj = [d \in {"d1", "d2"} |-> IdleProj]
    /\ mut = IdleMut

\* ToDisk is called on instance d: dr := apis.Disk{}, and getTypeMeta.
ProjBegin ==
    \E d \in DOMAIN disks :
        /\ proj[d].pc = "idle"
        /\ proj' = [proj EXCEPT ![d] =
                       [pc |-> "om_make",
                        dr |-> [ZeroDisk EXCEPT !.TypeMeta =
                                   [Kind |-> NDMDiskKind,
                                    APIVersion |-> NDMVersion]],
                        arg |-> disks[d],
                        overlap |-> (mut.state = "writing"
                                         /\ mut.target = d)]]
        /\ UNCHANGED <<disks, toDiskCall, partCall, op, nwrites, mut>>

\* The ToDisk call on instance d executes its next statement.
ProjStep ==
    \E d \in DOMAIN disks :
        /\ proj[d].pc \notin {"idle", "done"}
        /\ LET r == ProjStatement(proj[d].pc, proj[d].dr, Receiver(d))
           IN  proj' = [proj EXCEPT ![d].pc = r.pc, ![d].dr = r.dr]
        /\ UNCHANGED <<disks, toDiskCall, partCall, op, nwrites, mut>>

\* An observation of instance d starts; nothing is written yet.
MutStart(d, kind, obs) ==
    /\ mut.state = "idle"
    /\ mut' = [state |-> "writing", target |-> d, kind |-> kind,
               obs |-> obs, step |-> 0, before |-> disks[d]]
    /\ proj' = [proj EXCEPT ![d].overlap =
                   @ \/ proj[d].pc \notin {"idle", "done"}]
    /\ UNCHANGED <<disks, toDiskCall, partCall, op, nwrites>>

MutBegin ==
    \E d \in DOMAIN disks :
        \/ \E obs \in IdentifierSamples : MutStart(d, "identifiers", obs)
        \/ MutStart(d, "uuid", "")
        \/ \E obs \in NodeAttributeSamples : MutStart(d, "nodeattr", obs)
        \/ \E obs \in DiskTypeSamples : MutStart(d, "disktype", obs)
        \/ \E obs \in PathSamples : MutStart(d, "path", obs)
        \/ \E obs \in CapacitySamples : MutStart(d, "capacity", obs)
        \/ \E obs \in DetailsSamples : MutStart(d, "details", obs)
        \/ \E obs \in ByIdLinkSamples : MutStart(d, "byid", obs)
        \/ \E obs \in ByPathLinkSamples : MutStart(d, "bypath", obs)
        \/ \E obs \in FSSamples : MutStart(d, "filesystem", obs)
        \/ \E obs \in StatsSamples : MutStart(d, "stats", obs)
        \/ \E obs \in TemperatureSamples : MutStart(d, "temperature", obs)

\* The observation in flight writes its next field.
MutStep ==
    /\ mut.state = "writing"
    /\ disks' = [disks EXCEPT ![mut.target] =
                    FieldWrite(@, mut.kind, mut.obs, mut.step + 1)]
    /\ mut' = [mut EXCEPT
                  !.step = @ + 1,
                  !.state = IF mut.step + 1 = NumWrites(mut.kind)
                            THEN "done" ELSE "writing"]
    /\ UNCHANGED <<toDiskCall, partCall, op, nwrites, proj>>

NextConc ==
    \/ ProjBegin
    \/ ProjStep
    \/ MutBegin
    \/ MutStep

SpecConc == InitConc /\ [][NextConc]_vars

(***************************************************************************)
(* Properties of the sequential specifications.                            *)
(***************************************************************************)
\* The instances with a completed ToDisk call on record.
Projected == {d \in DOMAIN disks : toDiskCall[d].called}

\* The instances with a completed ToPartition call on record.
Partitioned == {d \in DOMAIN disks : partCall[d].called}

\* The exported filesystem the Sub-Mapper contract asks for.
ExpectedFS(fs) ==
    IF fs.FileSystem = UDEV_FS_NONE
    THEN [Type |-> "", Mountpoint |-> ""]
    ELSE [Type |-> fs.FileSystem, Mountpoint |-> fs.MountPoint]

\* The three labels, and only them, with the given values.
HasLabels(labels, host, type) ==
    /\ ~labels.isNil
    /\ Cardinality(labels.kv) = 3
    /\ MapKeys(labels) =
           {KubernetesHostNameLabel, NDMDiskTypeKey, NDMManagedKey}
    /\ MapGet(labels, KubernetesHostNameLabel) = host
    /\ MapGet(labels, NDMDiskTypeKey) = type
    /\ MapGet(labels, NDMManagedKey) = TrueString

\* The node name of an aggregate, the empty string when it has none.
NodeName(A) ==
    IF \E p \in A.NodeAttributes.kv : p[1] = HostNameKey
    THEN (CHOOSE p \in A.NodeAttributes.kv : p[1] = HostNameKey)[2]
    ELSE ""

\* C1 as stated: the name of the exported Disk is the Uuid held in the
\* aggregate's ProbeIdentifiers, and the labels are exactly node name (empty
\* when missing), disk type and the managed marker.
C1_NameIsProbeUuid ==
    \A d \in Projected :
        LET A == toDiskCall[d].arg
            R == toDiskCall[d].ret
        IN  /\ R.ObjectMeta.Name = A.ProbeIdentifiers.Uuid
            /\ HasLabels(R.ObjectMeta.Labels, NodeName(A), A.DiskType)

\* C1 amended: the name of the exported Disk is the aggregate's own Uuid
\* field (which holds ProbeIdentifiers.Uuid only once it has been copied
\* there), and the labels are exactly node name (empty when missing), disk
\* type and the managed marker.
C1_NameIsUuidField ==
    \A d \in Projected :
        LET A == toDiskCall[d].arg
            R == toDiskCall[d].ret
        IN  /\ R.ObjectMeta.Name = A.Uuid
            /\ HasLabels(R.ObjectMeta.Labels, NodeName(A), A.DiskType)

\* A projected aggregate whose Uuid is set and differs from the Uuid of its
\* ProbeIdentifiers, and which has no node name.
C1_Witness ==
    \E d \in Projected :
        LET A == toDiskCall[d].arg
        IN  /\ A.Uuid # ""
            /\ A.ProbeIdentifiers.Uuid # A.Uuid
            /\ HostNameKey \notin MapKeys(A.NodeAttributes)

\* C2: ToDisk copies path, capacity, both sector sizes and the seven static
\* details into the exported field of the same meaning, unchanged.
C2_StaticFactsVerbatim ==
    \A d \in Projected :
        LET A == toDiskCall[d].arg
            R == toDiskCall[d].ret
        IN  /\ R.Spec.Path = A.Path
            /\ R.Spec.Capacity =
                   [Storage |-> A.Capacity,
                    LogicalSectorSize |-> A.LogicalSectorSize,
                    PhysicalSectorSize |-> A.PhysicalSectorSize]
            /\ R.Spec.Details =
                   [Model |-> A.Model, Serial |-> A.Serial,
                    Vendor |-> A.Vendor,
                    FirmwareRevision |-> A.FirmwareRevision,
                    Compliance |-> A.Compliance,
                    DriveType |-> A.DriveType,
                    RotationRate |-> A.RotationRate]

\* A projected aggregate with path, capacity and details all observed.
C2_Witness ==
    \E d \in Projected :
        LET A == toDiskCall[d].arg
        IN  /\ A.Path # ""
            /\ A.Capacity # 0 /\ A.LogicalSectorSize # 0
            /\ A.PhysicalSectorSize # A.LogicalSectorSize
            /\ A.Model # "" /\ A.Serial # "" /\ A.Vendor # ""
            /\ A.FirmwareRevision # "" /\ A.Compliance # ""
            /\ A.DriveType # "" /\ A.RotationRate # 0

\* C3: the exported temperatures are all zero when TemperatureDataValid is
\* false, whatever is stored, and equal the stored ones when it is true; the
\* four runtime counters are copied in both cases.
C3_TemperatureGating ==
    \A d \in Projected :
        LET A == toDiskCall[d].arg
            R == toDiskCall[d].ret
            T == A.TemperatureInfo
        IN  /\ ~T.TemperatureDataValid =>
                   R.Stats.TempInfo =
                       [CurrentTemperature |-> 0, HighestTemperature |-> 0,
                        LowestTemperature |-> 0]
            /\ T.TemperatureDataValid =>
                   R.Stats.TempInfo =
                       [CurrentTemperature |-> T.CurrentTemperature,
                        HighestTemperature |-> T.HighestTemperature,
                        LowestTemperature |-> T.LowestTemperature]
            /\ R.Stats.TotalBytesRead = A.TotalBytesRead
            /\ R.Stats.TotalBytesWritten = A.TotalBytesWritten
            /\ R.Stats.DeviceUtilizationRate = A.DeviceUtilizationRate
            /\ R.Stats.PercentEnduranceUsed = A.PercentEnduranceUsed

\* A projected aggregate that stores a current temperature of 42 marked
\* invalid, next to observed counters.
C3_Witness ==
    \E d \in Projected :
        LET A == toDiskCall[d].arg
        IN  /\ ~A.TemperatureInfo.TemperatureDataValid
            /\ A.TemperatureInfo.CurrentTemperature = 42
            /\ A.TotalBytesRead # 0

\* C4: a filesystem of type UDEV_FS_NONE is exported with type and mount
\* point both unset, any other one with both copied; for the disk's own
\* filesystem in ToDisk and for every partition in ToPartition.
C4_FileSystemProjection ==
    /\ \A d \in Projected :
           toDiskCall[d].ret.Spec.FileSystem =
               ExpectedFS(toDiskCall[d].arg.FileSystemInformation)
    /\ \A d \in Partitioned :
           LET P == partCall[d].arg.PartitionData.elems
               R == partCall[d].ret.elems
           IN  \A i \in 1..Len(P) :
                   /\ i \in 1..Len(R)
                   /\ R[i].FileSystem =
                          ExpectedFS(P[i].FileSystemInformation)

\* An aggregate projected both ways whose own filesystem is absent with a
\* mount point stored, and which has a partition of the same kind and one
\* with a filesystem.
C4_Witness ==
    \E d \in Projected \cap Partitioned :
        LET A == toDiskCall[d].arg
            P == partCall[d].arg.PartitionData.elems
        IN  /\ A.FileSystemInformation.FileSystem = UDEV_FS_NONE
            /\ A.FileSystemInformation.MountPoint # ""
            /\ \E i \in 1..Len(P) :
                   /\ P[i].FileSystemInformation.FileSystem = UDEV_FS_NONE
                   /\ P[i].FileSystemInformation.MountPoint # ""
            /\ \E i \in 1..Len(P) :
                   P[i].FileSystemInformation.FileSystem
                       \notin {UDEV_FS_NONE, ""}

\* Two projected aggregates with the same mount point, the first without a
\* filesystem, the second with a filesystem of the empty type.
AbsentAndEmptyType(d1, d2) ==
    /\ d1 \in Projected /\ d2 \in Projected
    /\ toDiskCall[d1].arg.FileSystemInformation.FileSystem = UDEV_FS_NONE
    /\ toDiskCall[d2].arg.FileSystemInformation.FileSystem = ""
    /\ toDiskCall[d1].arg.FileSystemInformation.MountPoint =
           toDiskCall[d2].arg.FileSystemInformation.MountPoint

\* C5 as stated: an absent filesystem and a filesystem of the empty type
\* with the same mount point (the empty one included) are exported as
\* different values.
C5_AbsentDiffersFromEmptyType ==
    \A d1, d2 \in DOMAIN disks :
        AbsentAndEmptyType(d1, d2) =>
            toDiskCall[d1].ret.Spec.FileSystem #
                toDiskCall[d2].ret.Spec.FileSystem

\* C5 amended: an absent filesystem and a filesystem of the empty type with
\* the same mount point are exported as different values exactly when that
\* mount point is not empty; with the empty mount point both are exported as
\* the same value, type and mount point unset.
C5_AbsentDiffersIffMounted ==
    \A d1, d2 \in DOMAIN disks :
        AbsentAndEmptyType(d1, d2) =>
            LET mp == toDiskCall[d2].arg.FileSystemInformation.MountPoint
                E1 == toDiskCall[d1].ret.Spec.FileSystem
                E2 == toDiskCall[d2].ret.Spec.FileSystem
            IN  /\ (E1 # E2) <=> (mp # "")
                /\ mp = "" => /\ E1 = [Type |-> "", Mountpoint |-> ""]
                              /\ E2 = E1

\* Both aggregates projected, one without a filesystem and one with a
\* filesystem of the empty type, on the same non-empty mount point.
C5_Witness ==
    \E d1, d2 \in DOMAIN disks :
        /\ AbsentAndEmptyType(d1, d2)
        /\ toDiskCall[d2].arg.FileSystemInformation.MountPoint # ""

\* C6: the exported devlinks are a non-nil sequence of at most two entries:
\* a "by-id" entry holding ByIdDevLinks iff that list is not empty, then a
\* "by-path" entry holding ByPathDevLinks iff that list is not empty; no
\* entry has an empty link list, and with both lists empty the sequence is
\* empty.
C6_DevLinks ==
    \A d \in Projected :
        LET A == toDiskCall[d].arg
            L == toDiskCall[d].ret.Spec.DevLinks
            ids == {i \in 1..Len(L.elems) : L.elems[i].Kind = "by-id"}
            paths == {i \in 1..Len(L.elems) : L.elems[i].Kind = "by-path"}
        IN  /\ ~L.isNil
            /\ Len(L.elems) <= 2
            /\ ids \cup paths = 1..Len(L.elems)
            /\ Cardinality(ids) = (IF Len(A.ByIdDevLinks.elems) # 0
                                   THEN 1 ELSE 0)
            /\ Cardinality(paths) = (IF Len(A.ByPathDevLinks.elems) # 0
                                     THEN 1 ELSE 0)
            /\ \A i \in ids : L.elems[i].Links = A.ByIdDevLinks
            /\ \A i \in paths : L.elems[i].Links = A.ByPathDevLinks
            /\ \A i \in ids, j \in paths : i < j
            /\ \A i \in 1..Len(L.elems) : Len(L.elems[i].Links.elems) # 0
            /\ (Len(A.ByIdDevLinks.elems) = 0
                    /\ Len(A.ByPathDevLinks.elems) = 0) =>
                   L = [isNil |-> FALSE, elems |-> <<>>]

\* A projected aggregate with two by-id links and a by-path link.
C6_Witness ==
    \E d \in Projected :
        LET A == toDiskCall[d].arg
        IN  /\ Len(A.ByIdDevLinks.elems) = 2
            /\ Len(A.ByPathDevLinks.elems) = 1
            /\ Len(toDiskCall[d].ret.Spec.DevLinks.elems) = 2

\* C7: ToPartition returns a non-nil sequence with one entry per partition
\* record, in input order, each with the record's partition type and its
\* projected filesystem; the aggregate's PartitionData is the same after the
\* call.
C7_Partitions ==
    /\ \A d \in Partitioned :
           LET P == partCall[d].arg.PartitionData.elems
               R == partCall[d].ret
           IN  /\ ~R.isNil
               /\ Len(R.elems) = Len(P)
               /\ \A i \in 1..Len(P) :
                      /\ R.elems[i].PartitionType = P[i].PartitionType
                      /\ R.elems[i].FileSystem =
                             ExpectedFS(P[i].FileSystemInformation)
    /\ op.name = "ToPartition" =>
           /\ op.inst \in Partitioned
           /\ partCall[op.inst].arg = op.pre
           /\ disks[op.inst].PartitionData = op.pre.PartitionData

\* ToPartition has just returned for an aggregate with partition records
\* that differ from each other.
C7_Witness ==
    /\ op.name = "ToPartition"
    /\ op.inst \in Partitioned
    /\ LET P == partCall[op.inst].arg.PartitionData.elems
       IN  /\ Len(P) >= 2
           /\ P[1] # P[Len(P)]

\* C8: NewDiskInfo returns an aggregate with an empty non-nil NodeAttributes
\* map, the default disk type and every other field zero; projecting it as
\* it is gives zero path, capacity and details, an empty devlinks sequence,
\* the active state and the default disk type as the disk type label.
C8_NewDiskInfo ==
    /\ op.name = "NewDiskInfo" =>
           /\ disks[op.inst].NodeAttributes = [isNil |-> FALSE, kv |-> {}]
           /\ disks[op.inst].DiskType = NDMDefaultDiskType
           /\ [disks[op.inst] EXCEPT !.NodeAttributes = NilMap,
                                     !.DiskType = ""] = ZeroDiskInfo
    /\ \A d \in Projected :
           nwrites = 0 =>
               LET R == toDiskCall[d].ret
               IN  /\ R.Spec.Path = ""
                   /\ R.Spec.Capacity = ZeroDiskCapacity
                   /\ R.Spec.Details = ZeroDiskDetails
                   /\ R.Spec.DevLinks = [isNil |-> FALSE, elems |-> <<>>]
                   /\ R.Status.State = NDMActive
                   /\ MapGet(R.ObjectMeta.Labels, NDMDiskTypeKey) =
                          NDMDefaultDiskType

\* A never-populated aggregate has been projected.
C8_Witness ==
    /\ nwrites = 0
    /\ op.name = "ToDisk"
    /\ op.inst \in Projected
    /\ op.pre.NodeAttributes = [isNil |-> FALSE, kv |-> {}]

\* The value a field holds after an observation if an empty observed value
\* never replaces what is stored.
KeepNonEmpty(old, new, empty) == IF new = empty THEN old ELSE new

CompleteStates(d) ==
    IF mut.state # "idle" /\ mut.target = d
    THEN {mut.before} \cup (IF mut.state = "done" THEN {disks[d]} ELSE {})
    ELSE {disks[d]}

\* C10: ToDisk reads the aggregate field by field with no lock.  A call
\* that no observation of the same aggregate overlaps returns the
\* projection of a state the aggregate held between complete observations,
\* whatever happens to the other aggregate meanwhile, and an observation of
\* one aggregate never makes a call on another one overlapped.  (A call an
\* observation of the same aggregate does overlap can return a Disk that is
\* the projection of neither the state before nor the state after it:
\* C10_Witness.)
C10_NoSnapshotIsolation ==
    \A d \in DOMAIN disks :
        /\ (proj[d].pc = "done" /\ ~proj[d].overlap) =>
               /\ proj[d].dr = ToDisk(proj[d].arg)
               /\ proj[d].arg \in CompleteStates(d)
        /\ (proj[d].overlap) => (mut.state # "idle" /\ mut.target = d)

\* A finished call on one aggregate, overlapped by a finished observation of
\* it, returned a Disk that is the projection neither of the aggregate
\* before the observation nor of the aggregate after it, while the call on
\* the other aggregate returned that aggregate's projection.
C10_Witness ==
    \E d, e \in DOMAIN disks :
        /\ d # e
        /\ mut.state = "done" /\ mut.target = d
        /\ proj[d].pc = "done" /\ proj[d].overlap
        /\ proj[d].dr # ToDisk(mut.before)
        /\ proj[d].dr # ToDisk(disks[d])
        /\ proj[e].pc = "done"
        /\ proj[e].dr = ToDisk(disks[e])

====
